---- MODULE Spec2Model ----
(***************************************************************************)
(* Round-based Simon game session engine of simon-game-app:                *)
(*   src/src/backend/utils/simonLogic.ts      (pure game logic)            *)
(*   src/src/backend/websocket/gameHandler.ts (socket handlers and timers) *)
(*                                                                         *)
(* One room is modelled.  Node runs every handler and every timer callback *)
(* to completion, so each of them is one action.  Time is kept relative to *)
(* the current instant: a timer holds the milliseconds left until it is    *)
(* due, and the action Tick lets time pass up to the next deadline.        *)
(* Submission timestamps are kept as ranks: the code only compares the     *)
(* timestamps of the submissions of one round with each other.             *)
(***************************************************************************)
EXTENDS Bags, FiniteSets, Integers, Naturals, Sequences, TLC

(***************************************************************************)
(* Bounds of the model                                                     *)
(***************************************************************************)
MaxRound == 2
MaxTimers == 3
MaxResolutions == 2
MaxRequests == 3
MaxSequenceLength == 2
MaxPresence == 4
MaxStamp == 1
MaxCalls == 2
NumRandomColors == 1

(***************************************************************************)
(* Program constants                                                       *)
(***************************************************************************)
COLORS == <<"red", "blue", "yellow", "green">>
INITIAL_SEQUENCE_LENGTH == 1
INITIAL_TIMEOUT_MS == 5000
TIMEOUT_DECREMENT_MS == 250
MIN_TIMEOUT_MS == 1500
SHOW_COLOR_DURATION_MS == 600
SHOW_COLOR_GAP_MS == 200
CountdownIntervalMs == 1000
CountdownFrom == 3
StartDelayMs == 500
SequenceEndDelayMs == 500
InputDelayMs == 500
RoundResultDelayMs == 3000
LegacyAdvanceDelayMs == 2000

\* number | null fields hold Null for null; string | null fields hold NullId
Null == -1
NullId == "null"

\* the rooms of the model: room.players in join order, the first player is the host
Rooms == {<<"p1", "p2">>, <<"p1", "p2", "p3">>}
AllPlayers == {"p1", "p2", "p3"}
RoomCode == "ROOM"
\* the player ids a request may carry; in a room of two the third is a stranger
PlayerIds == AllPlayers

VARIABLES
  players,        \* room.players
  status,         \* room.status
  gameState,      \* room.gameState
  timers,         \* bag of pending setTimeout/setInterval callbacks
  simonTimeouts,  \* TRUE iff simonTimeouts has an entry for the room
  clockMoved,     \* Date.now() has changed since the last submission was stamped
  resolutions,    \* history: round number -> runs of processRoundSubmissions in that round
  requests,       \* history: game requests accepted so far
  act,            \* the handler or callback that ran last
  out,            \* what it wrote to the store and emitted, in order
  connected,      \* the players of the room whose connected flag is set
  sockets,        \* player -> live sockets whose session names the room and the player
  disconnectTimers, \* bag of pending buffer and removal callbacks of handleDisconnect
  lastEvent       \* history: player -> the last thing a socket of the player did

\* the state of the presence tracking, which no game handler touches
presence == <<connected, sockets, disconnectTimers, lastEvent>>

vars == <<players, status, gameState, timers, simonTimeouts, clockMoved, resolutions, requests,
          act, out, connected, sockets, disconnectTimers, lastEvent>>

(***************************************************************************)
(* Helpers                                                                 *)
(***************************************************************************)
Max(a, b) == IF a >= b THEN a ELSE b

NoScores == [p \in AllPlayers |-> 0]

\* a pending callback and what its closure holds: round is the round it was set in,
\* sequence the colours to show (for finishSimonGame: the key order of scores)
Timer(kind, due, round, count, tracked, scores, sequence) ==
  [kind |-> kind, due |-> due, round |-> round, count |-> count,
   tracked |-> tracked, scores |-> scores, sequence |-> sequence]

AddTimer(b, t) == b (+) SetToBag({t})

RemoveTimer(b, t) == b (-) SetToBag({t})

NoGame == [gameType |-> "none"]

NoResolutions == [r \in 1..MaxRound |-> 0]

IsSimon(gs) == gs.gameType = "simon"

\* room.players.find(p => p.id === playerId)
Members(roomPlayers) == {roomPlayers[i] : i \in 1..Len(roomPlayers)}

(***************************************************************************)
(* simonLogic.ts                                                           *)
(***************************************************************************)
\* the colours Math.random() is allowed to pick in the model
RandomColors == {COLORS[i] : i \in 1..NumRandomColors}

\* faulty variant: the filter keeps the connected players only
PlayingInOrder_ConnectedOnly(gs) ==
  SelectSeq(gs.keys, LAMBDA p : gs.playerStates[p].status = "playing" /\ p \in connected)

\* Object.values(gameState.playerStates).filter(state => state.status === 'playing')
PlayingInOrder(gs) ==
  SelectSeq(gs.keys, LAMBDA p : gs.playerStates[p].status = "playing")

\* keys: the insertion order of the keys of playerStates and of scores
initializeSimonGame(roomPlayers, initialSequence) ==
  [gameType |-> "simon",
   keys |-> roomPlayers,
   phase |-> "showing_sequence",
   sequence |-> initialSequence,
   round |-> 1,
   playerStates |-> [p \in {roomPlayers[i] : i \in 1..Len(roomPlayers)} |->
      [playerId |-> p, status |-> "playing", currentInputIndex |-> 0,
       eliminatedAtRound |-> Null]],
   timeoutMs |-> INITIAL_TIMEOUT_MS,
   timeoutAt |-> Null,
   scores |-> [p \in {roomPlayers[i] : i \in 1..Len(roomPlayers)} |-> 0],
   submissions |-> <<>>,
   roundWinner |-> NullId]

\* faulty variant: the sequence is not extended
extendSequence_Same(currentSequence, color) == currentSequence

extendSequence(currentSequence, color) == Append(currentSequence, color)

calculateTimeoutSeconds(sequenceLength) == 15 + (sequenceLength * 2)

\* faulty variant: the seconds are not converted
calculateTimeoutMs_Seconds(sequenceLength) == calculateTimeoutSeconds(sequenceLength)

calculateTimeoutMs(sequenceLength) == calculateTimeoutSeconds(sequenceLength) * 1000

HasState(gs, playerId) == playerId \in DOMAIN gs.playerStates

\* faulty variant: the position the player is at is not compared
validateInput_AnyPosition(gs, playerId, color, inputIndex) ==
  /\ HasState(gs, playerId)
  /\ inputIndex + 1 \in 1..Len(gs.sequence)
  /\ color = gs.sequence[inputIndex + 1]

validateInput(gs, playerId, color, inputIndex) ==
  IF ~HasState(gs, playerId) \/ gs.playerStates[playerId].currentInputIndex # inputIndex
  THEN FALSE
  ELSE \* sequence[inputIndex] is undefined past the end, and no colour equals undefined
       /\ inputIndex + 1 \in 1..Len(gs.sequence)
       /\ color = gs.sequence[inputIndex + 1]

RECURSIVE MatchFrom(_, _, _)
MatchFrom(sequence, submitted, i) ==
  IF i > Len(sequence) THEN TRUE
  ELSE IF submitted[i] # sequence[i] THEN FALSE
  ELSE MatchFrom(sequence, submitted, i + 1)

\* faulty variant: a submission that only starts with the sequence is accepted
validateSequence_Prefix(gs, submittedSequence) ==
  IF Len(submittedSequence) < Len(gs.sequence) THEN FALSE
  ELSE MatchFrom(gs.sequence, submittedSequence, 1)

validateSequence(gs, submittedSequence) ==
  IF Len(submittedSequence) # Len(gs.sequence) THEN FALSE
  ELSE MatchFrom(gs.sequence, submittedSequence, 1)

\* faulty variant: a correct submission eliminates its player too
IsEliminated_AnySubmission(submission, ps) ==
  /\ submission.playerId \in DOMAIN ps
  /\ ps[submission.playerId].status = "playing"

\* !submission.isCorrect && updatedPlayerStates[submission.playerId]?.status === 'playing'
IsEliminated(submission, ps) ==
  /\ ~submission.isCorrect
  /\ submission.playerId \in DOMAIN ps
  /\ ps[submission.playerId].status = "playing"

\* submissions.forEach(...) of processRoundSubmissions: r = [ps, elims]
RECURSIVE EliminateWrong(_, _, _, _)
EliminateWrong(subs, i, round, r) ==
  IF i > Len(subs) THEN r
  ELSE LET s == subs[i]
           hit == IsEliminated(s, r.ps)
       IN EliminateWrong(subs, i + 1, round,
            IF hit
            THEN [ps |-> [r.ps EXCEPT ![s.playerId].status = "eliminated",
                                      ![s.playerId].eliminatedAtRound = round],
                  elims |-> Append(r.elims,
                     [playerId |-> s.playerId, reason |-> "wrong_sequence"])]
            ELSE r)

\* Array.prototype.sort with (a, b) => a.timestamp - b.timestamp; the sort is stable
RECURSIVE InsertByTimestamp(_, _)
InsertByTimestamp(sorted, x) ==
  IF sorted = <<>> THEN <<x>>
  ELSE IF Head(sorted).timestamp <= x.timestamp
       THEN <<Head(sorted)>> \o InsertByTimestamp(Tail(sorted), x)
       ELSE <<x>> \o sorted

RECURSIVE SortByTimestamp(_)
SortByTimestamp(s) ==
  IF s = <<>> THEN <<>>
  ELSE InsertByTimestamp(SortByTimestamp(SubSeq(s, 1, Len(s) - 1)), s[Len(s)])

\* winners.forEach(winner => updatedScores[winner.playerId] = (... || 0) + 1)
\* faulty variant: the fastest player loses a point
AwardedScore_Penalty(old) == old - 1

\* (updatedScores[winner.playerId] || 0) + 1
AwardedScore(old) == old + 1

RECURSIVE AwardPoints(_, _)
AwardPoints(winners, scores) ==
  IF winners = <<>> THEN scores
  ELSE LET w == Head(winners).playerId
           old == IF w \in DOMAIN scores THEN scores[w] ELSE 0
       IN AwardPoints(Tail(winners),
            [p \in DOMAIN scores \cup {w} |-> IF p = w THEN AwardedScore(old) ELSE scores[p]])

\* faulty variant: the wrong submissions are not filtered out
correctOnly_Unfiltered(subs) == subs

correctOnly(subs) == SelectSeq(subs, LAMBDA s : s.isCorrect)

\* faulty variant: on a tie the last of the winners is reported
FirstWinner_Last(winners) == winners[Len(winners)].playerId

\* roundWinner = { playerId: winners[0].playerId, ... }
FirstWinner(winners) == winners[1].playerId

processRoundSubmissions(gs) ==
  LET submissions == gs.submissions
      correctSubmissions == correctOnly(submissions)
      e == EliminateWrong(submissions, 1, gs.round, [ps |-> gs.playerStates, elims |-> <<>>])
      sorted == SortByTimestamp(correctSubmissions)
      fastestTime == sorted[1].timestamp
      winners == SelectSeq(sorted, LAMBDA s : s.timestamp = fastestTime)
      updatedScores == IF Len(correctSubmissions) > 0
                       THEN AwardPoints(winners, gs.scores) ELSE gs.scores
      roundWinner == IF Len(correctSubmissions) > 0 THEN FirstWinner(winners) ELSE NullId
  IN [gameState |-> [gs EXCEPT !.playerStates = e.ps,
                               !.scores = updatedScores,
                               !.roundWinner = roundWinner,
                               !.submissions = <<>>],
      roundWinner |-> roundWinner,
      eliminations |-> e.elims]

\* faulty variant: eliminated players count toward the quorum
haveAllPlayersSubmitted_CountsEveryone(gs) ==
  Len(gs.keys) > 0 /\ Len(gs.submissions) >= Len(gs.keys)

haveAllPlayersSubmitted(gs) ==
  LET activePlayers == PlayingInOrder(gs)
  IN Len(activePlayers) > 0 /\ Len(gs.submissions) >= Len(activePlayers)

\* faulty variant: a new round puts every player back into play
ResetInputIndex_Revive(state) ==
  [state EXCEPT !.currentInputIndex = 0, !.status = "playing", !.eliminatedAtRound = Null]

\* updatedPlayerStates[id] = { ...state, currentInputIndex: 0 }
ResetInputIndex(state) == [state EXCEPT !.currentInputIndex = 0]

\* faulty variant: the submissions of the old round are kept
advanceToNextRound_KeepSubmissions(gs, color) ==
  [gs EXCEPT !.phase = "showing_sequence",
             !.sequence = extendSequence(gs.sequence, color),
             !.round = gs.round + 1,
             !.playerStates = [p \in DOMAIN gs.playerStates |->
                                 ResetInputIndex(gs.playerStates[p])],
             !.timeoutMs = Max(MIN_TIMEOUT_MS, gs.timeoutMs - TIMEOUT_DECREMENT_MS),
             !.roundWinner = NullId]

advanceToNextRound(gs, color) ==
  [gs EXCEPT !.phase = "showing_sequence",
             !.sequence = extendSequence(gs.sequence, color),
             !.round = gs.round + 1,
             !.playerStates = [p \in DOMAIN gs.playerStates |->
                                 ResetInputIndex(gs.playerStates[p])],
             !.timeoutMs = Max(MIN_TIMEOUT_MS, gs.timeoutMs - TIMEOUT_DECREMENT_MS),
             !.submissions = <<>>,
             !.roundWinner = NullId]

eliminatePlayer(gs, playerId, round) ==
  IF HasState(gs, playerId)
  THEN [gs EXCEPT !.playerStates[playerId].status = "eliminated",
                  !.playerStates[playerId].eliminatedAtRound = round]
  ELSE gs

\* faulty variant: the game ends only when nobody is left playing
shouldGameEnd_OnlyWhenNone(gs) == Len(PlayingInOrder(gs)) < 1

shouldGameEnd(gs) == Len(PlayingInOrder(gs)) <= 1

updatePlayerProgress(gs, playerId) ==
  IF HasState(gs, playerId)
  THEN [gs EXCEPT !.playerStates[playerId].currentInputIndex = @ + 1]
  ELSE gs

\* getWinner: the last player standing (finishSimonGame does not call it)
RECURSIVE LastEliminated(_, _, _, _)
LastEliminated(gs, i, lastRound, lastId) ==
  IF i > Len(gs.keys) THEN lastId
  ELSE LET st == gs.playerStates[gs.keys[i]]
       IN IF st.eliminatedAtRound # Null /\ st.eliminatedAtRound > lastRound
          THEN LastEliminated(gs, i + 1, st.eliminatedAtRound, st.playerId)
          ELSE LastEliminated(gs, i + 1, lastRound, lastId)

getWinner(gs) ==
  LET activePlayers == PlayingInOrder(gs)
  IN IF Len(activePlayers) = 1 THEN activePlayers[1]
     ELSE IF Len(activePlayers) = 0 THEN LastEliminated(gs, 1, -1, NullId)
     ELSE NullId


(***************************************************************************)
(* gameHandler.ts: timers                                                  *)
(***************************************************************************)
RECURSIVE SumCopies(_, _)
SumCopies(S, b) ==
  IF S = {} THEN 0
  ELSE LET x == CHOOSE y \in S : TRUE IN b[x] + SumCopies(S \ {x}, b)

\* the pending timers after d ms have passed
Elapse(b, d) ==
  LET S == {[x EXCEPT !.due = @ - d] : x \in DOMAIN b}
  IN [t \in S |-> SumCopies({x \in DOMAIN b : [x EXCEPT !.due = @ - d] = t}, b)]

Pending == BagToSet(timers)

Due(t) == t \in Pending /\ t.due = 0

IsRoundTimeout(t) == t.kind = "handleSimonTimeout"

\* clearTimeout(simonTimeouts.get(gameCode)): only the timer the map still names is cleared
ClearTracked(b) ==
  LET S == {t \in BagToSet(b) : IsRoundTimeout(t) /\ t.tracked}
  IN IF simonTimeouts /\ S # {} THEN RemoveTimer(b, CHOOSE t \in S : TRUE) ELSE b

\* the map entry is deleted or overwritten: no pending timer is reachable through it
Untrack(b) ==
  LET S == {[x EXCEPT !.tracked = FALSE] : x \in DOMAIN b}
  IN [t \in S |-> SumCopies({x \in DOMAIN b : [x EXCEPT !.tracked = FALSE] = t}, b)]

(***************************************************************************)
(* gameHandler.ts: what a handler writes and emits                         *)
(***************************************************************************)
\* gameService.updateGameState(gameCode, state)
Commit(gs) == [ev |-> "updateGameState", submissions |-> gs.submissions]

\* gameService.getRoom(gameCode)
\* the store drops a room when its last player is removed
RoomExists(gameCode) == gameCode = RoomCode /\ players # <<>>

Stamp(gs) ==
  IF gs.submissions = <<>> THEN 0
  ELSE gs.submissions[Len(gs.submissions)].timestamp + (IF clockMoved THEN 1 ELSE 0)

HasSubmitted(gs, playerId) ==
  \E i \in 1..Len(gs.submissions) : gs.submissions[i].playerId = playerId

\* .sort((a, b) => b.score - a.score), stable
RECURSIVE InsertByScore(_, _)
InsertByScore(sorted, x) ==
  IF sorted = <<>> THEN <<x>>
  ELSE IF Head(sorted).score >= x.score
       THEN <<Head(sorted)>> \o InsertByScore(Tail(sorted), x)
       ELSE <<x>> \o sorted

RECURSIVE SortByScore(_)
SortByScore(s) ==
  IF s = <<>> THEN <<>>
  ELSE InsertByScore(SortByScore(SubSeq(s, 1, Len(s) - 1)), s[Len(s)])

\* Object.entries(gameState.scores): keys in insertion order
ScoreEntries(keys, scores) ==
  LET ids == SelectSeq(keys, LAMBDA p : p \in DOMAIN scores)
  IN [i \in 1..Len(ids) |-> [playerId |-> ids[i], score |-> scores[ids[i]]]]

\* finishSimonGame: the event it emits (it also sets the room to finished)
finishSimonGame(keys, scores) ==
  LET playerScores == SortByScore(ScoreEntries(keys, scores))
  IN [ev |-> "simon:game_finished",
      winner |-> IF playerScores = <<>> THEN NullId ELSE playerScores[1].playerId,
      finalScores |-> playerScores]

\* showSimonSequence up to its first setTimeout
showSimonSequence(sequence, round) ==
  LET totalTime == Len(sequence) * (SHOW_COLOR_DURATION_MS + SHOW_COLOR_GAP_MS)
  IN [out |-> <<[ev |-> "simon:show_sequence", round |-> round, sequence |-> sequence]>>,
      timer |-> Timer("sequence_complete", totalTime + SequenceEndDelayMs, round, 0,
                      FALSE, NoScores, <<>>)]

\* processSimonRound: new state, writes and events, and the delay timer it sets
processSimonRound(st, gs) ==
  IF st # "active" \/ ~IsSimon(gs)
  THEN [ran |-> FALSE, gameState |-> gs, out |-> <<>>, timers |-> <<>>]
  ELSE LET r == processRoundSubmissions(gs)
           newState == r.gameState
           elimEvents == [i \in 1..Len(r.eliminations) |->
                            [ev |-> "simon:player_eliminated",
                             playerId |-> r.eliminations[i].playerId,
                             reason |-> r.eliminations[i].reason]]
           result == [ev |-> "simon:round_result",
                      roundWinner |-> r.roundWinner,
                      eliminations |-> r.eliminations,
                      scores |-> newState.scores,
                      playerStatuses |-> [p \in DOMAIN newState.playerStates |->
                                            newState.playerStates[p].status]]
       IN [ran |-> TRUE,
           gameState |-> newState,
           out |-> <<Commit(newState)>> \o elimEvents \o <<result>>,
           timers |-> IF shouldGameEnd(newState)
                      THEN <<Timer("finishSimonGame", RoundResultDelayMs, newState.round, 0,
                                   FALSE, newState.scores, newState.keys)>>
                      ELSE <<Timer("advanceSimonRound", RoundResultDelayMs, newState.round, 0,
                                   FALSE, NoScores, <<>>)>>]

RECURSIVE AddTimers(_, _)
AddTimers(b, ts) == IF ts = <<>> THEN b ELSE AddTimers(AddTimer(b, Head(ts)), Tail(ts))

\* a request that is turned away leaves only its name behind;
\* armed: for a timer callback, the round in which the timer was set
Ran(name, gameCode, playerId, accepted) ==
  [name |-> name, gameCode |-> IF accepted THEN gameCode ELSE NullId,
   playerId |-> IF accepted THEN playerId ELSE NullId,
   accepted |-> accepted, armed |-> 0]

Fired(t, accepted) ==
  [name |-> t.kind, gameCode |-> RoomCode, playerId |-> NullId,
   accepted |-> accepted, armed |-> t.round]

WithinBounds ==
  /\ BagCardinality(timers') <= MaxTimers
  /\ \A r \in DOMAIN resolutions' : resolutions'[r] <= MaxResolutions
  /\ requests' <= MaxRequests

(***************************************************************************)
(* Initial state: the room exists, everybody has joined, nobody started    *)
(***************************************************************************)
\* every player of the room holds one live socket and no presence timer is pending
EverybodyConnected ==
  /\ connected = Members(players)
  /\ sockets = [p \in AllPlayers |-> IF p \in Members(players) THEN 1 ELSE 0]
  /\ disconnectTimers = EmptyBag
  /\ lastEvent = [p \in AllPlayers |-> "join_room_socket"]

Init ==
  /\ players \in Rooms
  /\ status = "waiting"
  /\ gameState = NoGame
  /\ timers = EmptyBag
  /\ simonTimeouts = FALSE
  /\ clockMoved = FALSE
  /\ resolutions = NoResolutions
  /\ requests = 0
  /\ act = Ran("init", NullId, NullId, TRUE)
  /\ out = <<>>
  /\ EverybodyConnected

(***************************************************************************)
(* start_game and the countdown                                            *)
(***************************************************************************)
\* the host flag is set on the player who created the room
Host == "p1"

IsHost(playerId) == playerId \in Members(players) /\ playerId = Host

StartGame(gameCode, playerId) ==
  /\ UNCHANGED <<players, requests, presence>>
  /\ act' = Ran("start_game", gameCode, playerId,
                RoomExists(gameCode) /\ IsHost(playerId) /\ status = "waiting")
  /\ IF act'.accepted
     THEN /\ status' = "countdown"
          /\ timers' = AddTimer(timers, Timer("countdown", CountdownIntervalMs, 0,
                                              CountdownFrom, FALSE, NoScores, <<>>))
          /\ out' = <<>>
     ELSE /\ out' = <<[ev |-> "error"]>>
          /\ UNCHANGED <<status, timers>>
  /\ UNCHANGED <<gameState, simonTimeouts, clockMoved, resolutions>>
  /\ WithinBounds

\* one tick of the setInterval callback of startCountdown
CountdownTick(t) ==
  /\ UNCHANGED <<players, requests, presence>>
  /\ Due(t) /\ t.kind = "countdown"
  /\ act' = Fired(t, TRUE)
  /\ IF t.count = 0 /\ ~RoomExists(RoomCode)
     THEN /\ out' = <<[ev |-> "countdown", count |-> t.count]>>
          /\ timers' = RemoveTimer(timers, t)
          /\ UNCHANGED <<status, gameState>>
     ELSE IF t.count = 0
     THEN \E initialSequence \in [1..INITIAL_SEQUENCE_LENGTH -> RandomColors] :
            LET gs == initializeSimonGame(players, initialSequence)
            IN /\ status' = "active"
               /\ gameState' = gs
               /\ out' = <<[ev |-> "countdown", count |-> t.count], Commit(gs)>>
               /\ timers' = AddTimer(RemoveTimer(timers, t),
                              Timer("showSimonSequence", StartDelayMs, gs.round, 0,
                                    FALSE, NoScores, gs.sequence))
     ELSE /\ out' = <<[ev |-> "countdown", count |-> t.count]>>
          /\ timers' = AddTimer(RemoveTimer(timers, t),
                         [t EXCEPT !.due = CountdownIntervalMs, !.count = t.count - 1])
          /\ UNCHANGED <<status, gameState>>
  /\ resolutions' = NoResolutions
  /\ UNCHANGED <<simonTimeouts, clockMoved>>
  /\ WithinBounds

(***************************************************************************)
(* showSimonSequence and its two nested timers                             *)
(***************************************************************************)
\* the 500 ms timer of startCountdown calls showSimonSequence(io, gameCode, gameState)
ShowFirstSequence(t) ==
  /\ UNCHANGED <<players, requests, presence>>
  /\ Due(t) /\ t.kind = "showSimonSequence"
  /\ act' = Fired(t, TRUE)
  /\ LET s == showSimonSequence(t.sequence, t.round)
     IN /\ out' = s.out
        /\ timers' = AddTimer(RemoveTimer(timers, t), s.timer)
  /\ UNCHANGED <<status, gameState, simonTimeouts, clockMoved, resolutions>>
  /\ WithinBounds

\* outer timer: the animation is over
SequenceComplete(t) ==
  /\ UNCHANGED <<players, requests, presence>>
  /\ Due(t) /\ t.kind = "sequence_complete"
  /\ act' = Fired(t, TRUE)
  /\ out' = <<[ev |-> "simon:sequence_complete"]>>
  /\ timers' = AddTimer(RemoveTimer(timers, t),
                 Timer("input_phase", InputDelayMs, t.round, 0, FALSE, NoScores, <<>>))
  /\ UNCHANGED <<status, gameState, simonTimeouts, clockMoved, resolutions>>
  /\ WithinBounds

\* inner timer: enter player_input and arm the round timeout
InputPhase(t) ==
  /\ UNCHANGED <<players, requests, presence>>
  /\ Due(t) /\ t.kind = "input_phase"
  /\ act' = Fired(t, RoomExists(RoomCode) /\ status = "active" /\ IsSimon(gameState))
  /\ IF act'.accepted
     THEN LET timeoutSeconds == calculateTimeoutSeconds(Len(gameState.sequence))
              timeoutMs == calculateTimeoutMs(Len(gameState.sequence))
              updatedState == [gameState EXCEPT !.phase = "player_input",
                                                !.timeoutAt = timeoutMs]
          IN /\ gameState' = updatedState
             /\ out' = <<Commit(updatedState),
                         [ev |-> "simon:input_phase", round |-> gameState.round,
                          timeoutAt |-> timeoutMs, timeoutSeconds |-> timeoutSeconds]>>
             /\ timers' = AddTimer(Untrack(RemoveTimer(timers, t)),
                            Timer("handleSimonTimeout", timeoutMs, gameState.round, 0,
                                  TRUE, NoScores, <<>>))
             /\ simonTimeouts' = TRUE
     ELSE /\ out' = <<>>
          /\ timers' = RemoveTimer(timers, t)
          /\ UNCHANGED <<gameState, simonTimeouts>>
  /\ UNCHANGED <<status, clockMoved, resolutions>>
  /\ WithinBounds


(***************************************************************************)
(* simon:submit_sequence                                                   *)
(***************************************************************************)
\* faulty variant of the guards: the duplicate check is missing
SubmitGuards_NoDuplicateCheck(gameCode, playerId) ==
  /\ RoomExists(gameCode) /\ status = "active"
  /\ IsSimon(gameState)
  /\ HasState(gameState, playerId)
  /\ gameState.playerStates[playerId].status = "playing"

SubmitGuards(gameCode, playerId) ==
  /\ RoomExists(gameCode) /\ status = "active"
  /\ IsSimon(gameState)
  /\ HasState(gameState, playerId)
  /\ gameState.playerStates[playerId].status = "playing"
  /\ ~HasSubmitted(gameState, playerId)

SubmitSequence(gameCode, playerId, sequence) ==
  /\ act' = Ran("simon:submit_sequence", gameCode, playerId, SubmitGuards(gameCode, playerId))
  /\ requests' = IF act'.accepted THEN requests + 1 ELSE requests
  /\ requests' <= MaxRequests
  /\ UNCHANGED <<players, presence>>
  /\ IF act'.accepted
     THEN LET isCorrect == validateSequence(gameState, sequence)
              timestamp == Stamp(gameState)
              recorded == [gameState EXCEPT !.submissions = Append(@,
                             [playerId |-> playerId, sequence |-> sequence,
                              timestamp |-> timestamp, isCorrect |-> isCorrect])]
              submitted == <<Commit(recorded),
                             [ev |-> "simon:player_submitted", playerId |-> playerId]>>
          IN IF haveAllPlayersSubmitted(recorded)
             THEN LET r == processSimonRound(status, recorded)
                  IN /\ gameState' = r.gameState
                     /\ out' = submitted \o r.out
                     /\ timers' = AddTimers(ClearTracked(timers), r.timers)
                     /\ simonTimeouts' = FALSE
                     /\ resolutions' = [resolutions EXCEPT ![gameState.round] = @ + 1]
                     /\ clockMoved' = FALSE
             ELSE /\ gameState' = recorded
                  /\ out' = submitted
                  /\ clockMoved' = FALSE
                  /\ UNCHANGED <<timers, simonTimeouts, resolutions>>
     ELSE /\ out' = <<>>
          /\ UNCHANGED <<gameState, timers, simonTimeouts, resolutions, clockMoved>>
  /\ UNCHANGED status
  /\ WithinBounds

(***************************************************************************)
(* simon:submit_input, the per-colour path                                 *)
(***************************************************************************)
\* faulty variant of the guards: the room need not be active
InputGuards_AnyStatus(gameCode, playerId) ==
  /\ RoomExists(gameCode)
  /\ IsSimon(gameState)
  /\ HasState(gameState, playerId)
  /\ gameState.playerStates[playerId].status = "playing"

InputGuards(gameCode, playerId) ==
  /\ RoomExists(gameCode) /\ status = "active"
  /\ IsSimon(gameState)
  /\ HasState(gameState, playerId)
  /\ gameState.playerStates[playerId].status = "playing"

allComplete(gs) ==
  \A p \in DOMAIN gs.playerStates :
     \/ gs.playerStates[p].status # "playing"
     \/ gs.playerStates[p].currentInputIndex >= Len(gs.sequence)

SubmitInput(gameCode, playerId, color, inputIndex) ==
  /\ act' = Ran("simon:submit_input", gameCode, playerId, InputGuards(gameCode, playerId))
  /\ requests' = IF act'.accepted THEN requests + 1 ELSE requests
  /\ requests' <= MaxRequests
  /\ UNCHANGED <<players, presence>>
  /\ IF ~act'.accepted
     THEN /\ out' = <<>>
          /\ UNCHANGED <<status, gameState, timers>>
     ELSE IF ~validateInput(gameState, playerId, color, inputIndex)
     THEN LET newState == eliminatePlayer(gameState, playerId, gameState.round)
              eliminated == <<Commit(newState),
                              [ev |-> "simon:player_eliminated", playerId |-> playerId,
                               reason |-> "wrong_color"]>>
          IN /\ gameState' = newState
             /\ IF shouldGameEnd(newState)
                THEN /\ out' = eliminated \o <<finishSimonGame(newState.keys, newState.scores)>>
                     /\ status' = "finished"
                ELSE /\ out' = eliminated
                     /\ UNCHANGED status
             /\ UNCHANGED timers
     ELSE LET newState == updatePlayerProgress(gameState, playerId)
          IN /\ gameState' = newState
             /\ out' = <<Commit(newState),
                         [ev |-> "simon:input_correct", playerId |-> playerId,
                          index |-> inputIndex]>>
             /\ timers' =
                  IF /\ newState.playerStates[playerId].currentInputIndex
                          >= Len(newState.sequence)
                     /\ allComplete(newState)
                  THEN AddTimer(timers, Timer("advanceSimonRound", LegacyAdvanceDelayMs,
                                              newState.round, 0, FALSE, NoScores, <<>>))
                  ELSE timers
             /\ UNCHANGED status
  /\ UNCHANGED <<simonTimeouts, clockMoved, resolutions>>
  /\ WithinBounds

(***************************************************************************)
(* timer callbacks of the round                                            *)
(***************************************************************************)
\* faulty variant of the timeout submission: it counts as a correct answer
TimeoutSubmission_Correct(playerId, timestamp) ==
  [playerId |-> playerId, sequence |-> <<>>, timestamp |-> timestamp, isCorrect |-> TRUE]

\* the submission handleSimonTimeout records for a player who sent nothing
TimeoutSubmission(playerId, timestamp) ==
  [playerId |-> playerId, sequence |-> <<>>, timestamp |-> timestamp, isCorrect |-> FALSE]

\* activePlayers.forEach(...) of handleSimonTimeout: r = [gs, out]
RECURSIVE RecordTimeouts(_, _, _, _)
RecordTimeouts(active, i, timestamp, r) ==
  IF i > Len(active) THEN r
  ELSE IF HasSubmitted(r.gs, active[i]) THEN RecordTimeouts(active, i + 1, timestamp, r)
  ELSE RecordTimeouts(active, i + 1, timestamp,
         [gs |-> [r.gs EXCEPT !.submissions =
                    Append(@, TimeoutSubmission(active[i], timestamp))],
          out |-> Append(r.out, [ev |-> "simon:timeout", playerId |-> active[i],
                                 correctSequence |-> r.gs.sequence])])

HandleSimonTimeout(t) ==
  /\ UNCHANGED <<players, requests, presence>>
  /\ Due(t) /\ IsRoundTimeout(t)
  /\ act' = Fired(t, RoomExists(RoomCode) /\ status = "active" /\ IsSimon(gameState))
  /\ IF act'.accepted
     THEN LET rec == RecordTimeouts(PlayingInOrder(gameState), 1, Stamp(gameState),
                                    [gs |-> gameState, out |-> <<>>])
              r == processSimonRound(status, rec.gs)
          IN /\ gameState' = r.gameState
             /\ out' = rec.out \o <<Commit(rec.gs)>> \o r.out
             /\ timers' = AddTimers(Untrack(RemoveTimer(timers, t)), r.timers)
             /\ simonTimeouts' = FALSE
             /\ resolutions' = [resolutions EXCEPT ![gameState.round] = @ + 1]
             /\ clockMoved' = FALSE
     ELSE /\ out' = <<>>
          /\ timers' = RemoveTimer(timers, t)
          /\ UNCHANGED <<gameState, simonTimeouts, resolutions, clockMoved>>
  /\ UNCHANGED status
  /\ WithinBounds

AdvanceSimonRound(t) ==
  /\ UNCHANGED <<players, requests, presence>>
  /\ Due(t) /\ t.kind = "advanceSimonRound"
  /\ act' = Fired(t, RoomExists(RoomCode) /\ status = "active" /\ IsSimon(gameState))
  /\ IF act'.accepted
     THEN /\ gameState.round < MaxRound
          /\ \E color \in RandomColors :
               LET newState == advanceToNextRound(gameState, color)
                   s == showSimonSequence(newState.sequence, newState.round)
               IN /\ gameState' = newState
                  /\ out' = <<Commit(newState)>> \o s.out
                  /\ timers' = AddTimer(RemoveTimer(timers, t), s.timer)
          /\ clockMoved' = FALSE
     ELSE /\ out' = <<>>
          /\ timers' = RemoveTimer(timers, t)
          /\ UNCHANGED <<gameState, clockMoved>>
  /\ UNCHANGED <<status, simonTimeouts, resolutions>>
  /\ WithinBounds

\* the 3 s timer of processSimonRound calls finishSimonGame(io, gameCode, newState, room)
FinishSimonGame(t) ==
  /\ UNCHANGED <<players, requests, presence>>
  /\ Due(t) /\ t.kind = "finishSimonGame"
  /\ act' = Fired(t, TRUE)
  /\ out' = <<finishSimonGame(t.sequence, t.scores)>>
  /\ status' = IF RoomExists(RoomCode) THEN "finished" ELSE status
  /\ timers' = RemoveTimer(timers, t)
  /\ UNCHANGED <<gameState, simonTimeouts, clockMoved, resolutions>>

(***************************************************************************)
(* Passage of time                                                         *)
(***************************************************************************)
NextDeadline == CHOOSE d \in {t.due : t \in Pending} : \A t \in Pending : d <= t.due

\* time passes up to the next deadline; clients send their requests at the
\* instants at which some timer is due, before or after its callback has run
Tick ==
  /\ UNCHANGED <<players, requests, presence>>
  /\ Pending # {}
  /\ \A t \in Pending : t.due > 0
  /\ LET d == NextDeadline
     IN /\ timers' = Elapse(timers, d)
        /\ gameState' = IF IsSimon(gameState) /\ gameState.timeoutAt # Null
                        THEN [gameState EXCEPT !.timeoutAt = Max(0, @ - d)]
                        ELSE gameState
  /\ clockMoved' = (IsSimon(gameState) /\ gameState.submissions # <<>>)
  /\ act' = Ran("tick", NullId, NullId, TRUE)
  /\ out' = <<>>
  /\ UNCHANGED <<status, simonTimeouts, resolutions>>

\* the clock moves on by less than a timer resolves: the next stamp is later
ClockMs ==
  /\ UNCHANGED <<players, requests, presence>>
  /\ IsSimon(gameState) /\ gameState.submissions # <<>> /\ ~clockMoved
  /\ clockMoved' = TRUE
  /\ act' = Ran("tick", NullId, NullId, TRUE)
  /\ out' = <<>>
  /\ UNCHANGED <<status, gameState, timers, simonTimeouts, resolutions>>

(***************************************************************************)
(* Presence: sockets come and go, handleDisconnect debounces in two stages *)
(***************************************************************************)
\* a pending callback of handleDisconnect; tracked: disconnectTimeouts holds
\* its handle under the key of the player
PresenceTimer(kind, playerId, tracked) ==
  [kind |-> kind, playerId |-> playerId, tracked |-> tracked]

PendingPresence == BagToSet(disconnectTimers)

TimersOf(b, playerId) == {t \in BagToSet(b) : t.playerId = playerId}

\* disconnectTimeouts.set(key, other) and disconnectTimeouts.delete(key):
\* the timers of the key stay pending, their handle is gone from the map
Forget(b, playerId) ==
  LET F(x) == IF x.playerId = playerId THEN [x EXCEPT !.tracked = FALSE] ELSE x
      S == {F(x) : x \in DOMAIN b}
  IN [t \in S |-> SumCopies({x \in DOMAIN b : F(x) = t}, b)]

\* clearTimeout(disconnectTimeouts.get(key)); disconnectTimeouts.delete(key)
ClearPresence(b, playerId) ==
  LET S == {t \in TimersOf(b, playerId) : t.tracked}
  IN IF S # {} THEN RemoveTimer(b, CHOOSE t \in S : TRUE) ELSE b

\* gameService.updateSocketId: the player is connected again
updateSocketId(playerId) == connected \cup {playerId}

\* gameService.markPlayerDisconnected
markPlayerDisconnected(playerId) == connected \ {playerId}

\* gameService.removePlayer: the player leaves room.players; an empty room is dropped
removePlayer(roomPlayers, playerId) == SelectSeq(roomPlayers, LAMBDA q : q # playerId)

\* gameService.removeIfStillDisconnected: TRUE iff the player is removed
StillDisconnected(playerId) ==
  RoomExists(RoomCode) /\ playerId \in Members(players) /\ playerId \notin connected

\* what the handlers emit once a player is gone
AfterRemoval(roomPlayers, playerId) ==
  <<[ev |-> "player_left", playerId |-> playerId],
    IF roomPlayers # <<>> THEN [ev |-> "room_state_update"] ELSE [ev |-> "room_closed"]>>

PresenceFired(t) ==
  [name |-> t.kind, gameCode |-> RoomCode, playerId |-> t.playerId,
   accepted |-> TRUE, armed |-> 0]

game == <<status, gameState, timers, simonTimeouts, clockMoved, resolutions>>

\* faulty variant: the player list of the room is not consulted
ReconnectGuards_RoomOnly(gameCode, playerId) == RoomExists(gameCode)

\* if (!room) return; if (!player) return
ReconnectGuards(gameCode, playerId) ==
  RoomExists(gameCode) /\ playerId \in Members(players)

\* a socket connects with the session cookie of the player
HandleAutoReconnect(playerId) ==
  /\ act' = [name |-> "auto_reconnect", gameCode |-> RoomCode, playerId |-> playerId,
             accepted |-> ReconnectGuards(RoomCode, playerId), armed |-> 0]
  /\ requests' = requests + 1
  /\ IF act'.accepted
     THEN /\ connected' = updateSocketId(playerId)
          /\ sockets' = [sockets EXCEPT ![playerId] = @ + 1]
          /\ disconnectTimers' = ClearPresence(disconnectTimers, playerId)
          /\ lastEvent' = [lastEvent EXCEPT ![playerId] = "auto_reconnect"]
          /\ out' = <<[ev |-> "player_reconnected", playerId |-> playerId],
                      [ev |-> "room_state"]>>
     ELSE /\ out' = <<>>
          /\ UNCHANGED presence
  /\ UNCHANGED <<players, game>>

\* a socket sends join_room_socket
JoinRoomSocket(gameCode, playerId) ==
  /\ act' = Ran("join_room_socket", gameCode, playerId,
                RoomExists(gameCode) /\ playerId \in Members(players))
  /\ requests' = requests + 1
  /\ IF act'.accepted
     THEN /\ connected' = updateSocketId(playerId)
          /\ sockets' = [sockets EXCEPT ![playerId] = @ + 1]
          /\ lastEvent' = [lastEvent EXCEPT ![playerId] = "join_room_socket"]
          /\ out' = <<[ev |-> "room_state"], [ev |-> "room_state_update"],
                      [ev |-> "player_joined", playerId |-> playerId]>>
          /\ UNCHANGED disconnectTimers
     ELSE /\ out' = <<[ev |-> "error"]>>
          /\ UNCHANGED presence
  /\ UNCHANGED <<players, game>>

\* a socket of the player sends leave_room for the player
LeaveRoom(playerId) ==
  /\ sockets[playerId] > 0
  /\ act' = Ran("leave_room", RoomCode, playerId, TRUE)
  /\ requests' = requests + 1
  /\ sockets' = [sockets EXCEPT ![playerId] = @ - 1]
  /\ IF RoomExists(RoomCode) /\ playerId \in Members(players)
     THEN /\ players' = removePlayer(players, playerId)
          /\ connected' = connected \ {playerId}
          /\ out' = AfterRemoval(players', playerId)
     ELSE /\ out' = <<>>
          /\ UNCHANGED <<players, connected>>
  /\ UNCHANGED <<disconnectTimers, lastEvent, game>>

\* a socket of the player is lost: handleDisconnect
HandleDisconnect(playerId) ==
  /\ sockets[playerId] > 0
  /\ act' = Ran("disconnect", RoomCode, playerId, TRUE)
  /\ requests' = requests + 1
  /\ sockets' = [sockets EXCEPT ![playerId] = @ - 1]
  /\ disconnectTimers' = AddTimer(Forget(disconnectTimers, playerId),
                                  PresenceTimer("buffer", playerId, TRUE))
  /\ lastEvent' = [lastEvent EXCEPT ![playerId] = "disconnect"]
  /\ out' = <<>>
  /\ UNCHANGED <<players, connected, game>>

\* faulty variant: the buffer callback starts no removal timer
BufferTimers_NoRemoval(b, t) == RemoveTimer(b, t)

\* the buffer callback replaces itself by the removal timer
BufferTimers(b, t) ==
  AddTimer(Forget(RemoveTimer(b, t), t.playerId), PresenceTimer("removal", t.playerId, TRUE))

\* the buffer timer elapses
BufferElapsed(t) ==
  /\ t.kind = "buffer"
  /\ act' = PresenceFired(t)
  /\ connected' = markPlayerDisconnected(t.playerId)
  /\ out' = <<[ev |-> "player_disconnected", playerId |-> t.playerId]>>
  /\ disconnectTimers' = BufferTimers(disconnectTimers, t)
  /\ UNCHANGED <<players, sockets, lastEvent, requests, game>>

\* the removal timer elapses
RemovalElapsed(t) ==
  /\ t.kind = "removal"
  /\ act' = PresenceFired(t)
  /\ IF StillDisconnected(t.playerId)
     THEN /\ players' = removePlayer(players, t.playerId)
          /\ out' = AfterRemoval(players', t.playerId)
     ELSE /\ out' = <<>>
          /\ UNCHANGED players
  /\ disconnectTimers' = Forget(RemoveTimer(disconnectTimers, t), t.playerId)
  /\ UNCHANGED <<connected, sockets, lastEvent, requests, game>>

\* the presence tracking alone, in a room that waits for its host
PresenceBudget == requests' <= MaxPresence

NextPresence ==
  \/ \E playerId \in AllPlayers : HandleAutoReconnect(playerId) /\ PresenceBudget
  \/ \E playerId \in AllPlayers : JoinRoomSocket(RoomCode, playerId) /\ PresenceBudget
  \/ \E playerId \in AllPlayers : LeaveRoom(playerId) /\ PresenceBudget
  \/ \E playerId \in AllPlayers : HandleDisconnect(playerId) /\ PresenceBudget
  \/ \E t \in PendingPresence : BufferElapsed(t)
  \/ \E t \in PendingPresence : RemovalElapsed(t)

InitPresence ==
  /\ players = <<"p1", "p2">>
  /\ status = "waiting"
  /\ gameState = NoGame
  /\ timers = EmptyBag
  /\ simonTimeouts = FALSE
  /\ clockMoved = FALSE
  /\ resolutions = NoResolutions
  /\ requests = 0
  /\ act = Ran("init", NullId, NullId, TRUE)
  /\ out = <<>>
  /\ EverybodyConnected

SpecPresence == InitPresence /\ [][NextPresence]_vars

\* a callback handed to setTimeout is run once its delay has passed
SpecPresenceFair ==
  /\ InitPresence
  /\ [][NextPresence]_vars
  /\ WF_vars(\E t \in PendingPresence : BufferElapsed(t))
  /\ WF_vars(\E t \in PendingPresence : RemovalElapsed(t))

(***************************************************************************)
(* Requests clients may send                                               *)
(***************************************************************************)
OtherColor(c) == IF c = COLORS[1] THEN COLORS[2] ELSE COLORS[1]

WrongSequence(sequence) ==
  IF sequence = <<>> THEN <<COLORS[1]>>
  ELSE [sequence EXCEPT ![Len(sequence)] = OtherColor(@)]

\* a right and a wrong answer to the sequence on display; a request that the
\* guards turn away is sent with one payload, which the handler never reads
SequenceInputs(gameCode, playerId) ==
  IF SubmitGuards(gameCode, playerId)
  THEN {gameState.sequence, WrongSequence(gameState.sequence)}
  ELSE {<<>>}

InputColors(gameCode, playerId) ==
  IF InputGuards(gameCode, playerId) THEN {COLORS[1], COLORS[2]} ELSE {COLORS[1]}

\* the position the player is at, and the one after it
InputIndexes(gameCode, playerId) ==
  IF InputGuards(gameCode, playerId)
  THEN {gameState.playerStates[playerId].currentInputIndex,
        gameState.playerStates[playerId].currentInputIndex + 1}
  ELSE {0}

\* (gameCode, playerId) of a request: a member, a stranger, or a wrong room code
Senders == {<<RoomCode, p>> : p \in PlayerIds} \cup {<<"NOROOM", Host>>}

\* start_game is sent to a room that waits and to a room that has finished
StartStatuses == {"waiting", "finished"}

Next ==
  \/ \E sender \in Senders : status \in StartStatuses /\ StartGame(sender[1], sender[2])
  \/ \E sender \in Senders : \E sequence \in SequenceInputs(sender[1], sender[2]) :
        SubmitSequence(sender[1], sender[2], sequence)
  \/ \E sender \in Senders : \E color \in InputColors(sender[1], sender[2]) :
        \E inputIndex \in InputIndexes(sender[1], sender[2]) :
           SubmitInput(sender[1], sender[2], color, inputIndex)
  \/ \E t \in Pending : CountdownTick(t)
  \/ \E t \in Pending : ShowFirstSequence(t)
  \/ \E t \in Pending : SequenceComplete(t)
  \/ \E t \in Pending : InputPhase(t)
  \/ \E t \in Pending : HandleSimonTimeout(t)
  \/ \E t \in Pending : AdvanceSimonRound(t)
  \/ \E t \in Pending : FinishSimonGame(t)
  \/ Tick
  \/ ClockMs

Spec == Init /\ [][Next]_vars

\* the callback of a timer or interval runs once its delay has passed, and
\* time passes
TimerFires ==
  \E t \in Pending :
     \/ CountdownTick(t) \/ ShowFirstSequence(t) \/ SequenceComplete(t) \/ InputPhase(t)
     \/ HandleSimonTimeout(t) \/ AdvanceSimonRound(t) \/ FinishSimonGame(t)

\* a game in a room of two whose players stay; its timers fire
NextRounds ==
  \/ status = "waiting" /\ StartGame(RoomCode, Host)
  \/ \E playerId \in Members(players) : \E sequence \in SequenceInputs(RoomCode, playerId) :
        SubmitSequence(RoomCode, playerId, sequence)
  \/ \E playerId \in Members(players) : \E color \in InputColors(RoomCode, playerId) :
        \E inputIndex \in InputIndexes(RoomCode, playerId) :
           SubmitInput(RoomCode, playerId, color, inputIndex)
  \/ TimerFires
  \/ Tick

SpecFair == InitPresence /\ [][NextRounds]_vars /\ WF_vars(TimerFires) /\ WF_vars(Tick)

\* a game in a room of two whose players may leave or lose their connection
SessionBudget == requests' <= MaxRequests

NextSession ==
  \/ StartGame(RoomCode, Host)
  \/ \E playerId \in Members(players) : \E sequence \in SequenceInputs(RoomCode, playerId) :
        SubmitSequence(RoomCode, playerId, sequence)
  \/ \E t \in Pending : CountdownTick(t)
  \/ \E t \in Pending : ShowFirstSequence(t)
  \/ \E t \in Pending : SequenceComplete(t)
  \/ \E t \in Pending : InputPhase(t)
  \/ \E t \in Pending : HandleSimonTimeout(t)
  \/ \E t \in Pending : AdvanceSimonRound(t)
  \/ \E t \in Pending : FinishSimonGame(t)
  \/ Tick
  \/ \E playerId \in AllPlayers : LeaveRoom(playerId) /\ SessionBudget
  \/ \E playerId \in AllPlayers : HandleDisconnect(playerId) /\ SessionBudget
  \/ \E t \in PendingPresence : BufferElapsed(t)
  \/ \E t \in PendingPresence : RemovalElapsed(t)

SpecSession == InitPresence /\ [][NextSession]_vars


(***************************************************************************)
(* Properties                                                              *)
(***************************************************************************)
Emitted(name) == {i \in 1..Len(out) : out[i].ev = name}

TimeoutRan == act.name = "handleSimonTimeout" /\ act.accepted

SubmitRan == act.name = "simon:submit_sequence" /\ act.accepted

RoundTimeouts == {t \in Pending : IsRoundTimeout(t)}

SubmittedIds(subs) == {subs[i].playerId : i \in 1..Len(subs)}

PlayingSet(gs) == {p \in DOMAIN gs.playerStates : gs.playerStates[p].status = "playing"}

\* C1: a round number is resolved at most once, so that no score increment and
\* no elimination is applied twice for one round
C1_ResolvedAtMostOnce == \A r \in DOMAIN resolutions : resolutions[r] <= 1

\* C2: the round-timeout callback records timeouts and eliminates players only
\* in the round its timer was armed for
C2_TimeoutActsInItsRound ==
  (TimeoutRan /\ (Emitted("simon:timeout") \cup Emitted("simon:player_eliminated")) # {})
     => act.armed = gameState.round

\* C3: a round-timeout timer that fires for a round already resolved does nothing:
\* no submission, no status or score change, no event, no second resolution
C3_LateTimeoutIsNoOp ==
  [][\A t \in Pending :
       (HandleSimonTimeout(t) /\ resolutions[t.round] >= 1)
          => (out' = <<>> /\ UNCHANGED <<status, gameState, resolutions>>)]_vars

\* C4: at most one round-timeout timer is outstanding at any time
C4_OneRoundTimeout == SumCopies(RoundTimeouts, timers) <= 1

\* C5: when a submission triggers the resolution by quorum, every playing player
\* has a recorded submission
C5_QuorumIsComplete ==
  (SubmitRan /\ Emitted("simon:round_result") # {})
     => PlayingSet(gameState) \subseteq SubmittedIds(out[1].submissions)

\* C6: a full-sequence submission is recorded only while the phase is player_input
C6_SubmitOnlyInInputPhase == SubmitRan => gameState.phase = "player_input"

\* C7: a full-sequence submission for a missing room, a room that is not active,
\* a player without round state, a player who is not playing or a player who has
\* already submitted changes neither game state nor timers and emits nothing
C7_NoRoundState(playerId) == ~IsSimon(gameState) \/ ~HasState(gameState, playerId)

C7_Invalid(gameCode, playerId) ==
  \/ ~RoomExists(gameCode)
  \/ status # "active"
  \/ C7_NoRoundState(playerId)
  \/ gameState.playerStates[playerId].status # "playing"
  \/ HasSubmitted(gameState, playerId)

C7_InvalidSubmitIgnored ==
  [][act'.name = "simon:submit_sequence" =>
       IF act'.accepted
       THEN ~C7_Invalid(act'.gameCode, act'.playerId)
       ELSE out' = <<>> /\ UNCHANGED <<players, status, gameState, timers, simonTimeouts>>]_vars

C7_Witness ==
  /\ act.name = "simon:submit_sequence" /\ ~act.accepted
  /\ status = "active" /\ IsSimon(gameState)
  /\ gameState.submissions # <<>>

\* C8: when the round timeout resolves a round, every playing player without a
\* submission gets an empty, incorrect submission before the resolver runs and
\* ends the round eliminated; the submissions recorded before stay as they were
C8_Silent(gs) == {p \in PlayingSet(gs) : ~HasSubmitted(gs, p)}

C8_TimeoutSynthesis ==
  [][\A t \in Pending :
       (HandleSimonTimeout(t) /\ status = "active" /\ IsSimon(gameState))
          => LET silent == C8_Silent(gameState)
                 k == Cardinality(silent)
                 given == out'[k + 1]
             IN /\ given.ev = "updateGameState"
                /\ Len(given.submissions) = Len(gameState.submissions) + k
                /\ SubSeq(given.submissions, 1, Len(gameState.submissions))
                      = gameState.submissions
                /\ \A p \in silent :
                      /\ \E i \in 1..Len(given.submissions) :
                            /\ given.submissions[i].playerId = p
                            /\ given.submissions[i].sequence = <<>>
                            /\ ~given.submissions[i].isCorrect
                      /\ gameState'.playerStates[p].status = "eliminated"
                      /\ gameState'.playerStates[p].eliminatedAtRound = gameState.round]_vars

C8_Witness ==
  /\ TimeoutRan
  /\ Emitted("simon:timeout") # {}
  /\ \E i \in Emitted("updateGameState") :
        Len(out[i].submissions) > Cardinality(Emitted("simon:timeout"))

\* C9: an elimination reported by a resolution has reason timeout when the
\* submission was synthesized by the timeout handler, else wrong_sequence
C9_EliminationReason ==
  \A i \in Emitted("simon:player_eliminated") :
     out[i].reason # "wrong_color"
        => out[i].reason =
              IF \E j \in Emitted("simon:timeout") : out[j].playerId = out[i].playerId
              THEN "timeout" ELSE "wrong_sequence"

\* C10: the declared winner is the sole player still playing, or the
\* player eliminated last when nobody is playing, whatever the scores
C10_LastStandingWins ==
  \A i \in Emitted("simon:game_finished") :
     LET playing == PlayingSet(gameState)
         w == out[i].winner
     IN /\ Cardinality(playing) = 1 => w \in playing
        /\ playing = {} =>
              /\ w \in DOMAIN gameState.playerStates
              /\ gameState.playerStates[w].eliminatedAtRound # Null
              /\ \A p \in DOMAIN gameState.playerStates :
                    gameState.playerStates[p].eliminatedAtRound
                       <= gameState.playerStates[w].eliminatedAtRound

\* C11: a resolution sets the finish delay exactly when at most one player is
\* still playing after it, and otherwise the advance delay; the finish callback
\* always ends the game and the advance callback starts the next round without
\* ever ending it
C11_FinishTimer(gs) ==
  Timer("finishSimonGame", RoundResultDelayMs, gs.round, 0, FALSE, gs.scores, gs.keys)

C11_AdvanceTimer(gs) ==
  Timer("advanceSimonRound", RoundResultDelayMs, gs.round, 0, FALSE, NoScores, <<>>)

C11_Resolved == \E i \in 1..Len(out') : out'[i].ev = "simon:round_result"

C11_FinishedIffAtMostOnePlaying ==
  [][/\ C11_Resolved =>
          LET fin == C11_FinishTimer(gameState')
              adv == C11_AdvanceTimer(gameState')
              ends == Cardinality(PlayingSet(gameState')) <= 1
          IN /\ status' = "active"
             /\ CopiesIn(fin, timers') = CopiesIn(fin, timers) + (IF ends THEN 1 ELSE 0)
             /\ CopiesIn(adv, timers') = CopiesIn(adv, timers) + (IF ends THEN 0 ELSE 1)
     /\ act'.name = "finishSimonGame" => status' = "finished"
     /\ (act'.name = "advanceSimonRound" /\ act'.accepted) =>
          /\ status' = "active"
          /\ gameState'.round = gameState.round + 1
          /\ gameState'.phase = "showing_sequence"]_vars

C11_Witness ==
  /\ Emitted("simon:round_result") # {}
  /\ Cardinality(PlayingSet(gameState)) = 1
  /\ CopiesIn(C11_FinishTimer(gameState), timers) >= 1
  /\ \E p \in DOMAIN gameState.scores : gameState.scores[p] > 0

\* the submissions a resolution works on: those of the last write to the store
\* before the resolver ran, which is the first write of the step
ProcessedSubmissions(o) ==
  o[CHOOSE i \in 1..Len(o) :
      /\ o[i].ev = "updateGameState"
      /\ \A j \in 1..(i - 1) : o[j].ev # "updateGameState"].submissions

\* the players whose submission is correct and as early as any correct one
FastestCorrect(subs) ==
  {subs[i].playerId : i \in {k \in 1..Len(subs) :
      /\ subs[k].isCorrect
      /\ \A j \in 1..Len(subs) : subs[j].isCorrect => subs[k].timestamp <= subs[j].timestamp}}

\* C12: a resolution adds exactly 1 to the score of every player whose submission
\* is correct and has the least timestamp among the correct ones, all of them on
\* a tie, and changes no other score; no point is given without a correct answer
C12_FastestCorrectScore ==
  [][C11_Resolved =>
       LET subs == ProcessedSubmissions(out')
           winners == FastestCorrect(subs)
       IN /\ DOMAIN gameState'.scores = DOMAIN gameState.scores
          /\ \A p \in DOMAIN gameState.scores :
                gameState'.scores[p] = gameState.scores[p] + (IF p \in winners THEN 1 ELSE 0)
          /\ (\A i \in 1..Len(subs) : ~subs[i].isCorrect) => winners = {}
          /\ \A i \in 1..Len(out') : out'[i].ev = "simon:round_result" =>
                out'[i].scores = gameState'.scores]_vars

C12_Witness ==
  /\ Emitted("simon:round_result") # {}
  /\ Cardinality(FastestCorrect(ProcessedSubmissions(out))) = 2
  /\ \E i \in 1..Len(ProcessedSubmissions(out)) :
        /\ ProcessedSubmissions(out)[i].isCorrect
        /\ ProcessedSubmissions(out)[i].playerId \notin FastestCorrect(ProcessedSubmissions(out))

\* C13: a resolution eliminates exactly the playing players whose submission is
\* incorrect, in the current round, and reports them; every other player, one
\* with a correct submission that was not the fastest included, keeps its state
C13_Wrong(subs) == {subs[i].playerId : i \in {k \in 1..Len(subs) : ~subs[k].isCorrect}}

C13_EliminatesExactlyWrong ==
  [][C11_Resolved =>
       LET subs == ProcessedSubmissions(out')
           losers == {p \in PlayingSet(gameState) : p \in C13_Wrong(subs)}
       IN /\ \A p \in DOMAIN gameState.playerStates :
                gameState'.playerStates[p] =
                   IF p \in losers
                   THEN [gameState.playerStates[p] EXCEPT !.status = "eliminated",
                                                          !.eliminatedAtRound = gameState.round]
                   ELSE gameState.playerStates[p]
          /\ {out'[i].playerId : i \in {k \in 1..Len(out') :
                                           out'[k].ev = "simon:player_eliminated"}} = losers]_vars

C13_Witness ==
  /\ Emitted("simon:round_result") # {}
  /\ LET subs == ProcessedSubmissions(out)
     IN /\ C13_Wrong(subs) # {}
        /\ \E i \in 1..Len(subs) :
              /\ subs[i].isCorrect
              /\ subs[i].playerId \notin FastestCorrect(subs)
              /\ gameState.playerStates[subs[i].playerId].status = "playing"

\* C14: the reported round winner is null exactly when no submission is
\* correct; otherwise it is the player of the first recorded submission among
\* the correct ones with the least timestamp
C14_FirstRecorded(subs) ==
  subs[CHOOSE i \in 1..Len(subs) :
         /\ subs[i].playerId \in FastestCorrect(subs) /\ subs[i].isCorrect
         /\ \A j \in 1..(i - 1) :
               ~(subs[j].playerId \in FastestCorrect(subs) /\ subs[j].isCorrect)].playerId

C14_RoundWinner ==
  [][C11_Resolved =>
       LET subs == ProcessedSubmissions(out')
           noneCorrect == \A i \in 1..Len(subs) : ~subs[i].isCorrect
       IN /\ \A i \in 1..Len(out') : out'[i].ev = "simon:round_result" =>
                /\ out'[i].roundWinner = NullId <=> noneCorrect
                /\ ~noneCorrect => out'[i].roundWinner = C14_FirstRecorded(subs)
          /\ gameState'.roundWinner = IF noneCorrect THEN NullId ELSE C14_FirstRecorded(subs)]_vars

C14_Witness ==
  /\ Emitted("simon:round_result") # {}
  /\ LET subs == ProcessedSubmissions(out)
     IN /\ Cardinality(FastestCorrect(subs)) = 2
        /\ ~subs[1].isCorrect
        /\ gameState.roundWinner = subs[2].playerId

(***************************************************************************)
(* validateSequence on its own: every sequence and every submission over   *)
(* the four colours up to MaxSequenceLength                                *)
(***************************************************************************)
ColorSequences ==
  UNION {[1..n -> {COLORS[i] : i \in 1..Len(COLORS)}] : n \in 0..MaxSequenceLength}

InitValidate ==
  /\ players \in Rooms
  /\ status = "active"
  /\ \E sequence \in ColorSequences : gameState = initializeSimonGame(players, sequence)
  /\ timers = EmptyBag
  /\ simonTimeouts = FALSE
  /\ clockMoved = FALSE
  /\ resolutions = NoResolutions
  /\ requests = 0
  /\ act = Ran("init", NullId, NullId, TRUE)
  /\ out = <<>>
  /\ EverybodyConnected

Validate(submittedSequence) ==
  /\ act' = Ran("validateSequence", RoomCode, NullId, TRUE)
  /\ out' = <<[ev |-> "validateSequence", submittedSequence |-> submittedSequence,
               isCorrect |-> validateSequence(gameState, submittedSequence)]>>
  /\ UNCHANGED <<players, status, gameState, timers, simonTimeouts, clockMoved,
                 resolutions, requests, presence>>

NextValidate == \E submittedSequence \in ColorSequences : Validate(submittedSequence)

SpecValidate == InitValidate /\ [][NextValidate]_vars

\* C15: validateSequence answers true exactly when the submission has the
\* length of the round's sequence and the same colour at every position
C15_ValidateSequence ==
  act.name = "validateSequence" =>
    LET T == out[1].submittedSequence
        S == gameState.sequence
    IN out[1].isCorrect <=> (Len(T) = Len(S) /\ \A i \in 1..Len(S) : T[i] = S[i])

\* an empty submission against a non-empty sequence, found incorrect
C15_Witness ==
  /\ act.name = "validateSequence"
  /\ out[1].submittedSequence = <<>>
  /\ Len(gameState.sequence) = MaxSequenceLength
  /\ ~out[1].isCorrect

\* C16: once the room is finished it stays finished, and no request and no
\* timer callback changes the game state; the passage of time only brings
\* the recorded deadline nearer
C16_FinishedIsFinal ==
  [][status = "finished" =>
       /\ status' = "finished"
       /\ gameState' = IF act'.name = "tick"
                       THEN [gameState EXCEPT !.timeoutAt = gameState'.timeoutAt]
                       ELSE gameState]_vars

\* the round timeout fires in a finished room and is ignored
C16_Witness ==
  /\ status = "finished"
  /\ act.name = "handleSimonTimeout" /\ ~act.accepted
  /\ \E p \in PlayingSet(gameState) : TRUE

\* C17: timeoutAt is non-null only while the phase is player_input; it is
\* null while the sequence of any round is shown
C17_TimeoutOnlyInInput ==
  IsSimon(gameState) =>
    (gameState.timeoutAt # Null => gameState.phase = "player_input")

\* C18: the submissions map has at most one entry per player; it is empty
\* whenever the round number changes, so that every entry was recorded in the
\* round the game is in; it is empty whenever a round enters showing_sequence
C18_OnePerPlayer(gs) ==
  \A i, j \in 1..Len(gs.submissions) :
     gs.submissions[i].playerId = gs.submissions[j].playerId => i = j

C18_Submissions ==
  [][IsSimon(gameState') =>
       /\ C18_OnePerPlayer(gameState')
       /\ (~IsSimon(gameState) \/ gameState'.round # gameState.round)
             => gameState'.submissions = <<>>
       /\ (gameState'.phase = "showing_sequence" /\
             (~IsSimon(gameState) \/ gameState.phase # "showing_sequence"
                \/ gameState'.round # gameState.round))
             => gameState'.submissions = <<>>]_vars

\* the first submission of round 2 sits alone in the map
C18_Witness ==
  /\ IsSimon(gameState) /\ gameState.round = 2
  /\ act.name = "simon:submit_sequence" /\ act.accepted
  /\ Len(gameState.submissions) = 1
  /\ gameState.submissions[1].playerId = act.playerId

\* C19: in every state of a game the sequence is as long as the round number
C19_SequenceLengthIsRound ==
  IsSimon(gameState) => Len(gameState.sequence) = gameState.round

\* a round advance has extended the sequence
C19_Witness ==
  /\ act.name = "advanceSimonRound" /\ act.accepted
  /\ gameState.round = 2 /\ Len(gameState.sequence) = 2

\* C20: within a game a player who is no longer playing never plays again,
\* and eliminatedAtRound, once it holds a round number, keeps that number
C20_EliminationIsFinal ==
  [][(IsSimon(gameState) /\ IsSimon(gameState')) =>
       \A p \in DOMAIN gameState.playerStates :
          /\ p \in DOMAIN gameState'.playerStates
          /\ gameState.playerStates[p].status # "playing" =>
                gameState'.playerStates[p].status = gameState.playerStates[p].status
          /\ gameState.playerStates[p].eliminatedAtRound # Null =>
                gameState'.playerStates[p].eliminatedAtRound =
                   gameState.playerStates[p].eliminatedAtRound]_vars

\* round 2 is resolved while a player eliminated in round 1 keeps its record
C20_Witness ==
  /\ IsSimon(gameState) /\ gameState.round = 2
  /\ Emitted("simon:round_result") # {}
  /\ \E p \in DOMAIN gameState.playerStates :
        /\ gameState.playerStates[p].status = "eliminated"
        /\ gameState.playerStates[p].eliminatedAtRound = 1
  /\ \E p \in DOMAIN gameState.playerStates :
        gameState.playerStates[p].eliminatedAtRound = 2

\* C21: no step of a game decreases the score of any player
C21_ScoresNeverDecrease ==
  [][(IsSimon(gameState) /\ IsSimon(gameState')) =>
       \A p \in DOMAIN gameState.scores :
          /\ p \in DOMAIN gameState'.scores
          /\ gameState'.scores[p] >= gameState.scores[p]]_vars

\* a resolution has raised a score that was already positive
C21_Witness ==
  /\ IsSimon(gameState)
  /\ Emitted("simon:round_result") # {}
  /\ \E p \in DOMAIN gameState.scores : gameState.scores[p] = 2

\* C22: once a player has been eliminated, a submission that leaves every
\* player still playing with a recorded submission resolves the round in the
\* same step, whatever the eliminated player has or has not sent; a submission
\* is accepted from a playing player only, and a refused one changes nothing
C22_SomeoneEliminated(gs) ==
  IsSimon(gs) /\ \E p \in DOMAIN gs.playerStates : gs.playerStates[p].status = "eliminated"

C23_EmitAfterCommit ==
  \A i \in 1..Len(out) :
     /\ out[i].ev \in {"simon:player_submitted", "simon:timeout"} =>
           \E j \in 1..(i - 1) :
              /\ out[j].ev = "updateGameState"
              /\ out[i].playerId \in SubmittedIds(out[j].submissions)
     /\ out[i].ev \in {"simon:player_eliminated", "simon:round_result"} =>
           \E j \in 1..(i - 1) : out[j].ev = "updateGameState"

\* C25: when a socket connects with the session cookie of a player who is
\* still marked connected while a buffer timer of the player is pending, no
\* presence timer of the player is pending afterwards and the player stays
\* connected; no buffer timer marks a player whose sockets have lost no
\* connection since that reconnect
C25_ReconnectInBuffer ==
  [][/\ (/\ act'.name = "auto_reconnect" /\ act'.accepted
         /\ act'.playerId \in connected
         /\ \E t \in TimersOf(disconnectTimers, act'.playerId) : t.kind = "buffer")
           => /\ TimersOf(disconnectTimers', act'.playerId) = {}
              /\ act'.playerId \in connected'
     /\ act'.name = "buffer" => lastEvent[act'.playerId] # "auto_reconnect"]_vars

\* C26: when a socket connects with the session cookie of a player who is
\* marked disconnected while a removal timer of the player is pending, no
\* removal timer of the player is pending afterwards and the player is
\* connected again; no removal timer removes a player whose sockets have lost
\* no connection since that reconnect
C26_ReconnectInGrace ==
  [][/\ (/\ act'.name = "auto_reconnect" /\ act'.accepted
         /\ act'.playerId \notin connected
         /\ \E t \in TimersOf(disconnectTimers, act'.playerId) : t.kind = "removal")
           => /\ \A t \in TimersOf(disconnectTimers', act'.playerId) : t.kind # "removal"
              /\ act'.playerId \in connected'
     /\ (act'.name = "removal" /\ players' # players)
           => lastEvent[act'.playerId] # "auto_reconnect"]_vars

\* C27: a player whose connection is lost and who never connects again is
\* eventually removed from the room; the removal timer removes only a player
\* who was marked disconnected before, and when the removal empties the
\* room the room is closed
C27_LostPlayerIsRemoved ==
  /\ \A p \in AllPlayers :
        (p \in Members(players) /\ sockets[p] = 0 /\ lastEvent[p] = "disconnect")
          ~> (p \notin Members(players) \/ lastEvent[p] # "disconnect")
  /\ [][(act'.name = "removal" /\ players' # players)
          => /\ act'.playerId \notin connected
             /\ act'.playerId \notin Members(players')
             /\ players' = <<>> => out'[2].ev = "room_closed"]_vars

\* C27: the removal timer of the last member has elapsed, the room is closed
C27_Witness ==
  /\ act.name = "removal"
  /\ lastEvent[act.playerId] = "disconnect"
  /\ players = <<>>
  /\ Len(out) = 2 /\ out[1].ev = "player_left" /\ out[2].ev = "room_closed"

\* C28: a player who has a live socket bound to the room is never marked
\* disconnected by the buffer timer and never removed by the removal timer
C28_LivePlayerIsKept ==
  [][/\ act'.name = "buffer" => sockets[act'.playerId] = 0
     /\ (act'.name = "removal" /\ players' # players)
           => sockets[act'.playerId] = 0]_vars

\* C24: when the room is gone, the callback of a game timer (sequence
\* display, start of the input phase, round timeout, advance delay, finish
\* delay) changes nothing and emits no event
C24_RoomGoneTimersAreInert ==
  [][(/\ act'.name \in {"showSimonSequence", "sequence_complete", "input_phase",
                        "handleSimonTimeout", "advanceSimonRound", "finishSimonGame"}
      /\ ~RoomExists(RoomCode))
        => /\ out' = <<>>
           /\ gameState' = gameState /\ status' = status /\ players' = players]_vars

\* C29: a player whom the removal timer has removed from the room no longer
\* counts toward quorum: a submission that leaves every playing player who is
\* still a member of the room with a recorded submission resolves the round
\* of the input phase in the same step
C29_RemovedByPresence(gs) ==
  {p \in PlayingSet(gs) : p \notin Members(players) /\ lastEvent[p] = "disconnect"}

C29_RemovedOutOfQuorum ==
  [][(/\ act'.name = "simon:submit_sequence" /\ act'.accepted
      /\ gameState.phase = "player_input"
      /\ C29_RemovedByPresence(gameState) # {})
        => ((PlayingSet(gameState) \cap Members(players))
               \subseteq SubmittedIds(ProcessedSubmissions(out'))
             => C11_Resolved)]_vars

\* C30: the buffer callback that marks a player disconnected changes no
\* player's round state and no score; a member who is merely marked
\* disconnected keeps the status playing and counts toward quorum, so that
\* no submission resolves the round while that member has none recorded
C30_DisconnectedPlaying(gs) ==
  {p \in PlayingSet(gs) : p \in Members(players) /\ p \notin connected}

C31_ReconnectOnlyForMembers ==
  [][act'.name = "auto_reconnect" =>
       /\ act'.accepted <=> (players # <<>> /\ act'.playerId \in Members(players))
       /\ ~act'.accepted =>
            /\ connected' = connected /\ sockets' = sockets
            /\ disconnectTimers' = disconnectTimers
            /\ players' = players
            /\ out' = <<>>
       /\ act'.accepted =>
            /\ act'.playerId \in connected'
            /\ \E i \in 1..Len(out') : out'[i].ev = "player_reconnected"]_vars

\* C31: a player whom the removal timer has removed presents the cookie and
\* is turned away
C31_Witness ==
  /\ act.name = "auto_reconnect" /\ ~act.accepted
  /\ players # <<>>
  /\ act.playerId \in AllPlayers \ Members(players)
  /\ lastEvent[act.playerId] = "disconnect"
  /\ act.playerId \notin connected
  /\ out = <<>>

\* C32: an accepted simon:submit_input whose colour and index are those of
\* the position the player is at moves the player's currentInputIndex on by
\* one and changes nothing else of the game state; any other accepted input
\* eliminates the player at the current round and changes no score
C32_Expected(gs, playerId, color, inputIndex) ==
  /\ inputIndex = gs.playerStates[playerId].currentInputIndex
  /\ inputIndex < Len(gs.sequence)
  /\ gs.sequence[inputIndex + 1] = color

C32_PerColorInput ==
  [][\A color \in {COLORS[1], COLORS[2]} :
       \A inputIndex \in 0..(MaxRound + INITIAL_SEQUENCE_LENGTH) :
         (/\ act'.name = "simon:submit_input" /\ act'.accepted
          /\ SubmitInput(act'.gameCode, act'.playerId, color, inputIndex))
            => LET p == act'.playerId
               IN IF C32_Expected(gameState, p, color, inputIndex)
                  THEN /\ gameState' = [gameState EXCEPT
                            !.playerStates[p].currentInputIndex = @ + 1]
                       /\ status' = status
                  ELSE /\ gameState' = [gameState EXCEPT
                            !.playerStates[p].status = "eliminated",
                            !.playerStates[p].eliminatedAtRound = gameState.round]
                       /\ gameState.playerStates[p].status = "playing"]_vars

\* C32: a player who had entered one colour correctly is eliminated by the
\* next input
C32_Witness ==
  /\ act.name = "simon:submit_input" /\ act.accepted
  /\ Emitted("simon:player_eliminated") # {}
  /\ gameState.playerStates[act.playerId].status = "eliminated"
  /\ gameState.playerStates[act.playerId].eliminatedAtRound = gameState.round
  /\ gameState.playerStates[act.playerId].currentInputIndex = 1

\* C33: a step that enters player_input sets timeoutAt to
\* (15 + 2 * Len(sequence)) * 1000 ms after the entry and arms one round
\* timeout with that delay for the round that is current, which is the one
\* timer simonTimeouts names afterwards
C33_EntersInput ==
  /\ IsSimon(gameState') /\ gameState'.phase = "player_input"
  /\ \/ ~IsSimon(gameState)
     \/ gameState.phase # "player_input"
     \/ act'.name = "input_phase" /\ act'.accepted

C33_TimeoutOnEntry ==
  [][C33_EntersInput =>
       LET ms == (15 + 2 * Len(gameState'.sequence)) * 1000
           armed == {t \in BagToSet(timers') : IsRoundTimeout(t) /\ t.tracked}
       IN /\ gameState'.timeoutAt = ms
          /\ gameState'.sequence = gameState.sequence
          /\ gameState'.round = gameState.round
          /\ simonTimeouts'
          /\ \E t \in armed : armed = {t} /\ CopiesIn(t, timers') = 1
                               /\ t.due = ms /\ t.round = gameState'.round
          /\ \E i \in 1..Len(out') :
                /\ out'[i].ev = "simon:input_phase"
                /\ out'[i].timeoutAt = ms
                /\ out'[i].round = gameState'.round]_vars

\* C33: the input phase of round 2 has begun, 19 seconds are allowed
C33_Witness ==
  /\ act.name = "input_phase" /\ act.accepted
  /\ gameState.phase = "player_input" /\ gameState.round = 2
  /\ Len(gameState.sequence) = 2
  /\ gameState.timeoutAt = 19000
  /\ \E t \in RoundTimeouts : t.tracked /\ t.due = 19000 /\ t.round = 2

(***************************************************************************)
(* processRoundSubmissions on its own: called repeatedly on a game state   *)
(* whose submissions, stamps and player statuses are drawn from all cases  *)
(***************************************************************************)
SubmissionLists(ids) ==
  UNION {{s \in [1..n -> [playerId : ids, sequence : {<<>>},
                          timestamp : 0..MaxStamp, isCorrect : BOOLEAN]] :
            \A i, j \in 1..n : i # j => s[i].playerId # s[j].playerId} :
         n \in 0..Cardinality(ids)}

InitProcess ==
  /\ players \in Rooms
  /\ status = "active"
  /\ \E subs \in SubmissionLists(Members(players)) :
       \E gone \in SUBSET Members(players) :
          gameState = [initializeSimonGame(players, <<COLORS[1]>>) EXCEPT
                         !.phase = "player_input",
                         !.submissions = subs,
                         !.playerStates = [p \in Members(players) |->
                            IF p \in gone
                            THEN [@[p] EXCEPT !.status = "eliminated", !.eliminatedAtRound = 1]
                            ELSE @[p]]]
  /\ timers = EmptyBag
  /\ simonTimeouts = FALSE
  /\ clockMoved = FALSE
  /\ resolutions = NoResolutions
  /\ requests = 0
  /\ act = Ran("init", NullId, NullId, TRUE)
  /\ out = <<>>
  /\ EverybodyConnected

\* faulty variant: the eliminations and the points are written into the argument
ArgumentAfterCall_InPlace(gs, r) ==
  [gs EXCEPT !.playerStates = r.gameState.playerStates, !.scores = r.gameState.scores]

\* let updatedPlayerStates = { ...gameState.playerStates }, updatedScores =
\* { ...gameState.scores }: every write of the call goes to a copy
ArgumentAfterCall(gs, r) == gs

\* processRoundSubmissions(room.gameState), the result kept by the caller
Process ==
  /\ Len(out) < MaxCalls
  /\ act' = Ran("processRoundSubmissions", RoomCode, NullId, TRUE)
  /\ LET r == processRoundSubmissions(gameState)
     IN /\ out' = Append(out, [ev |-> "processRoundSubmissions",
                               input |-> gameState, result |-> r])
        /\ gameState' = ArgumentAfterCall(gameState, r)
  /\ UNCHANGED <<players, status, timers, simonTimeouts, clockMoved,
                 resolutions, requests, presence>>

NextProcess == Process

SpecProcess == InitProcess /\ [][NextProcess]_vars

C35_AdvanceOncePerRound ==
  [][(act'.name = "advanceSimonRound" /\ act'.accepted) =>
       /\ act'.armed = gameState.round
       /\ gameState.phase # "showing_sequence"
       /\ gameState'.round = gameState.round + 1]_vars

\* C36: simon:game_finished is emitted once at most in a step, and only
\* while the room is not finished yet; that step finishes the room, so that
\* a game is reported finished at most once
C36_FinishedOnce ==
  [][LET fin == {i \in 1..Len(out') : out'[i].ev = "simon:game_finished"}
     IN fin # {} => /\ Cardinality(fin) = 1
                    /\ status # "finished"
                    /\ status' = "finished"]_vars

\* C37: with timers firing and the room active, a round that is in its
\* input phase does not stay there for ever, whether or not anybody submits,
\* and the game does not move on from it unless the round has been resolved
C37_Exhausted == Pending # {} /\ ~ENABLED Tick /\ ~ENABLED TimerFires

C37_RoundIsResolved ==
  /\ \A r \in 1..MaxRound :
        (/\ status = "active" /\ IsSimon(gameState)
         /\ gameState.phase = "player_input" /\ gameState.round = r)
          ~> \/ resolutions[r] >= 1
             \/ status # "active"
             \/ gameState.round # r
             \/ C37_Exhausted
  /\ [][(/\ status = "active" /\ IsSimon(gameState)
          /\ gameState.phase = "player_input"
          /\ status' = "active" /\ gameState'.round # gameState.round)
            => resolutions'[gameState.round] >= 1]_vars

\* C38: a score goes up only in a step that resolves a round, and only for
\* a player who is playing when that step begins; the round winner of a
\* resolution is a player who is playing when it begins
C38_PointsOnlyForPlaying ==
  [][(IsSimon(gameState) /\ IsSimon(gameState')) =>
       /\ \A p \in DOMAIN gameState.scores :
             gameState'.scores[p] > gameState.scores[p] =>
               /\ C11_Resolved
               /\ gameState.playerStates[p].status = "playing"
       /\ (C11_Resolved /\ gameState'.roundWinner # NullId) =>
             gameState'.roundWinner \in PlayingSet(gameState)]_vars

====
